---- MODULE Spec2Model ----
(***************************************************************************)
(* Model of iptcconcapy (src/iptcconcapy/main.py): concatenate_csv_files   *)
(* merges the colon-delimited .csv files of a directory into the           *)
(* comma-delimited concatenated_output.csv, check_csv validates every row  *)
(* of that file and prints one block per faulty row.                       *)
(*                                                                         *)
(* A text (a file's content, a field value, a column name) is a sequence   *)
(* of atoms.  An atom is one character (":", ",", the double quote, "_",   *)
(* " ", a digit, a line break) or a run of letters that holds none of      *)
(* those characters ("Filename", "Mio", "IMG001"); no atom is a            *)
(* concatenation of other atoms, so two texts are equal exactly when       *)
(* their atom sequences are.                                               *)
(***************************************************************************)
EXTENDS Integers, Sequences, FiniteSets, TLC

VARIABLES
  dirExists,   \* input_directory.exists()
  dir,         \* the .csv files of the input directory, in listing order
  selfInput,   \* the input directory is the current working directory
  run,         \* which invocation of main this is
  pc,          \* position of main
  csv_files,   \* the list built at line 34 (0 stands for the output file)
  fi,          \* number of csv_files already merged
  reader,      \* the rows of the file csv_reader reads (of an input file)
  rpos,        \* rows the current csv_reader has handed out
  csv_writer,  \* csv_writer is not None
  outExists,   \* concatenated_output.csv exists
  out,         \* what has been written to concatenated_output.csv
  flushed,     \* how much of out has reached the disk
  mrows,       \* the rows of the merged file, as check_csv's reader parses them
  cpos,        \* rows of the merged file the DictReader has consumed
  row_num,     \* check_csv's row_num
  row,         \* check_csv's row (the DictReader's dict)
  errors,      \* check_csv's errors
  report,      \* the blocks printed so far
  prev         \* the outcome of the previous invocation

vars == <<dirExists, dir, selfInput, run, pc, csv_files, fi, reader, rpos, csv_writer,
          outExists, out, flushed, mrows, cpos, row_num, row, errors, report, prev>>

----------------------------------------------------------------------------
(* Constants of main.py *)

INPUT_DELIMITER == ":"
OUTPUT_DELIMITER == ","
COL_FILENAME == <<"Filename">>
COL_SIZE == <<"Size">>
COL_WIDTH == <<"Width">>
COL_OBJECT_NAME == <<"IPTC", ":", "ObjectName">>
COL_SUP_CATEGORY == <<"IPTC", ":", "Sup.">>
COL_SOURCE == <<"IPTC", ":", "Source">>
CATEGORY == <<"MQB", " ", "-", " ", "Iconotheque">>
SOURCE == <<"evian">>
MIN_SIZE == 2
MAX_SIZE == 4
WIDTH_DPI == <<"3200", " ", "DPI">>

(* Characters the csv module and str methods treat specially *)
QUOTE == "\""
NL == "\n"
CR == "\r"
Whitespace == {" ", NL, CR, "\t"}
Digits == {"0", "1", "2", "3", "4", "5", "6", "7", "8", "9"}

----------------------------------------------------------------------------
(* Sequences *)

Range(s) == {s[i] : i \in 1..Len(s)}

RECURSIVE Concat(_)
Concat(ss) == IF ss = <<>> THEN <<>> ELSE Head(ss) \o Concat(Tail(ss))

Min2(a, b) == IF a <= b THEN a ELSE b

RECURSIVE SeqsUpTo(_, _)
SeqsUpTo(S, n) ==
  IF n = 0 THEN {<<>>}
  ELSE LET shorter == SeqsUpTo(S, n - 1)
       IN  shorter \cup {Append(s, x) : s \in shorter, x \in S}

----------------------------------------------------------------------------
(* csv.reader: the parser of _csv.c with the default dialect (quotechar '"', *)
(* doublequote, not strict).  A parser state ps holds the state st of the    *)
(* automaton, the field and the record being built and the records already  *)
(* handed out.  Feed is Reader.parse_process_char on one character; NL is    *)
(* the end of a line, which ends the record unless a quoted field is open.   *)
StartRecord == [st |-> "START_RECORD", field |-> <<>>, rec |-> <<>>, rows |-> <<>>]

Feed(ps, c, delim) ==
  LET EndRecord(r) ==
        [st |-> "START_RECORD", field |-> <<>>, rec |-> <<>>, rows |-> Append(ps.rows, r)]
      SaveField == [ps EXCEPT !.st = "START_FIELD", !.field = <<>>,
                              !.rec = Append(ps.rec, ps.field)]
      AddChar(s) == [ps EXCEPT !.st = s, !.field = Append(ps.field, c)]
  IN  CASE ps.st = "START_RECORD" /\ c = NL -> EndRecord(<<>>)
        [] ps.st = "START_FIELD" /\ c = NL -> EndRecord(Append(ps.rec, <<>>))
        [] ps.st \in {"START_RECORD", "START_FIELD"} /\ c # NL ->
             IF c = QUOTE THEN [ps EXCEPT !.st = "IN_QUOTED_FIELD"]
             ELSE IF c = delim THEN SaveField
             ELSE AddChar("IN_FIELD")
        [] ps.st = "IN_FIELD" ->
             IF c = NL THEN EndRecord(Append(ps.rec, ps.field))
             ELSE IF c = delim THEN SaveField
             ELSE AddChar("IN_FIELD")
        [] ps.st = "IN_QUOTED_FIELD" ->
             IF c = QUOTE THEN [ps EXCEPT !.st = "QUOTE_IN_QUOTED_FIELD"]
             ELSE AddChar("IN_QUOTED_FIELD")
        [] ps.st = "QUOTE_IN_QUOTED_FIELD" ->
             IF c = QUOTE THEN AddChar("IN_QUOTED_FIELD")
             ELSE IF c = delim THEN SaveField
             ELSE IF c = NL THEN EndRecord(Append(ps.rec, ps.field))
             ELSE AddChar("IN_FIELD")

ParserStates ==
  {"START_RECORD", "START_FIELD", "IN_FIELD", "IN_QUOTED_FIELD", "QUOTE_IN_QUOTED_FIELD"}

(* The characters text[i..j] of one line, one after the other: the state after a *)
(* character is computed before the next one is looked at                        *)
RECURSIVE ParseChars(_, _, _, _, _)
ParseChars(text, delim, i, j, ps) ==
  IF i > j \/ ps.st \notin ParserStates THEN ps
  ELSE ParseChars(text, delim, i + 1, j, Feed(ps, text[i], delim))

(* Where the line that starts at i ends: at its line break, or after the text *)
LineEnd(text, i) ==
  LET breaks == {j \in i..Len(text) : text[j] \in {NL, CR}}
  IN  IF breaks = {} THEN Len(text) + 1
      ELSE CHOOSE j \in breaks : \A k \in breaks : j <= k

(* The lines of a file opened with mode="r": universal newlines hand "\r\n" and  *)
(* "\r" to the reader as "\n".  At the end of the input an open record is handed *)
(* out as it stands.                                                             *)
RECURSIVE ParseLines(_, _, _, _)
ParseLines(text, delim, i, ps) ==
  IF i > Len(text) \/ ps.st \notin ParserStates
  THEN IF ps.st = "START_RECORD" THEN ps.rows
       ELSE Append(ps.rows, Append(ps.rec, ps.field))
  ELSE LET e == LineEnd(text, i)
           line == ParseChars(text, delim, i, e - 1, ps)
       IN  IF e > Len(text) THEN ParseLines(text, delim, e, line)
           ELSE ParseLines(text, delim,
                           IF text[e] = CR /\ e < Len(text) /\ text[e + 1] = NL
                           THEN e + 2 ELSE e + 1,
                           Feed(line, NL, delim))

(* The rows csv.reader(f, delimiter=delim) yields for a file opened in text mode *)
ReadCsv(text, delim) == ParseLines(text, delim, 1, StartRecord)

(* csv.writer, QUOTE_MINIMAL: a field is quoted when it holds the delimiter, *)
(* the quote character or a character of the line terminator, and when it is *)
(* the empty only field of its row; quotes inside are doubled.               *)
(* A plausible slip: fields are joined as they are *)
NeedsQuoteNever(field, delim, alone) == FALSE

NeedsQuote(field, delim, alone) ==
  \/ \E i \in 1..Len(field) : field[i] \in {delim, QUOTE, CR, NL}
  \/ alone /\ field = <<>>

RECURSIVE DoubleQuotes(_)
DoubleQuotes(field) ==
  IF field = <<>> THEN <<>>
  ELSE (IF Head(field) = QUOTE THEN <<QUOTE, QUOTE>> ELSE <<Head(field)>>)
       \o DoubleQuotes(Tail(field))

WriteField(field, delim, alone) ==
  IF NeedsQuote(field, delim, alone)
  THEN <<QUOTE>> \o DoubleQuotes(field) \o <<QUOTE>>
  ELSE field

RECURSIVE JoinFields(_, _, _)
JoinFields(fields, delim, alone) ==
  IF fields = <<>> THEN <<>>
  ELSE WriteField(Head(fields), delim, alone)
       \o (IF Len(fields) > 1 THEN <<delim>> ELSE <<>>)
       \o JoinFields(Tail(fields), delim, alone)

(* csv_writer.writerow(fields): the joined fields and the line terminator "\r\n" *)
WriteRow(fields, delim) == JoinFields(fields, delim, Len(fields) = 1) \o <<CR, NL>>

----------------------------------------------------------------------------
(* str methods used by check_csv *)

RECURSIVE LStrip(_)
LStrip(s) == IF s # <<>> /\ Head(s) \in Whitespace THEN LStrip(Tail(s)) ELSE s

RECURSIVE RStrip(_)
RStrip(s) ==
  IF s # <<>> /\ s[Len(s)] \in Whitespace THEN RStrip(SubSeq(s, 1, Len(s) - 1)) ELSE s

(* str.strip() *)
Strip(s) == RStrip(LStrip(s))

StartsWith(s, p) == Len(s) >= Len(p) /\ SubSeq(s, 1, Len(p)) = p

(* str.replace(old, new): every occurrence of old, scanned from the left *)
RECURSIVE Replace(_, _, _)
Replace(s, old, new) ==
  IF s = <<>> THEN <<>>
  ELSE IF StartsWith(s, old)
       THEN new \o Replace(SubSeq(s, Len(old) + 1, Len(s)), old, new)
       ELSE <<Head(s)>> \o Replace(Tail(s), old, new)

(* str.split(sep) *)
RECURSIVE Split(_, _)
Split(s, sep) ==
  LET at == {i \in 1..Len(s) : s[i] = sep}
  IN  IF at = {} THEN <<s>>
      ELSE LET i == CHOOSE j \in at : \A k \in at : j <= k
           IN  <<SubSeq(s, 1, i - 1)>> \o Split(SubSeq(s, i + 1, Len(s)), sep)

(* float(s), for texts without sign, exponent, "inf" and "nan": decimal digits *)
(* with at most one point among them, and single underscores between digits.  *)
(* Any other atom makes float raise ValueError.                               *)
IsFloat(s) ==
  /\ \A i \in 1..Len(s) : s[i] \in Digits \cup {".", "_"}
  /\ \A i \in 1..Len(s) :
       s[i] = "_" => i > 1 /\ i < Len(s) /\ s[i - 1] \in Digits /\ s[i + 1] \in Digits
  /\ Cardinality({i \in 1..Len(s) : s[i] = "."}) <= 1
  /\ \E i \in 1..Len(s) : s[i] \in Digits

DigitVal(c) ==
  CASE c = "0" -> 0 [] c = "1" -> 1 [] c = "2" -> 2 [] c = "3" -> 3 [] c = "4" -> 4
    [] c = "5" -> 5 [] c = "6" -> 6 [] c = "7" -> 7 [] c = "8" -> 8 [] c = "9" -> 9

RECURSIVE Pow10(_)
Pow10(e) == IF e = 0 THEN 1 ELSE 10 * Pow10(e - 1)

RECURSIVE DigitsVal(_)
DigitsVal(s) ==
  IF s = <<>> THEN 0 ELSE 10 * DigitsVal(SubSeq(s, 1, Len(s) - 1)) + DigitVal(s[Len(s)])

(* A number m / 10^e with no trailing zero in its fraction *)
RECURSIVE Normal(_, _)
Normal(m, e) == IF e > 0 /\ m % 10 = 0 THEN Normal(m \div 10, e - 1) ELSE <<m, e>>

NotUnderscore(c) == c # "_"

(* float(s) as the pair <<m, e>> standing for m / 10^e *)
FloatOf(s) ==
  LET d == SelectSeq(s, NotUnderscore)
      at == {i \in 1..Len(d) : d[i] = "."}
      p == IF at = {} THEN Len(d) + 1 ELSE CHOOSE i \in at : TRUE
  IN  Normal(DigitsVal(SubSeq(d, 1, p - 1) \o SubSeq(d, p + 1, Len(d))), Len(d) - Min2(p, Len(d)))

----------------------------------------------------------------------------
(* csv.DictReader *)

(* A value of the dict: a text, or None (restval) for a key the row is too short for *)
None == [none |-> TRUE, s |-> <<>>]
Str(s) == [none |-> FALSE, s |-> s]

(* DictReader.__next__: dict(zip(fieldnames, fields)), so the last of several *)
(* equal column names wins; the fields beyond the header go under restkey;    *)
(* the column names beyond the fields are set to restval.                     *)
MakeDict(fieldnames, fields) ==
  [vals |-> [k \in Range(fieldnames) |->
               LET i == CHOOSE j \in 1..Len(fieldnames) :
                          /\ fieldnames[j] = k
                          /\ \A l \in 1..Len(fieldnames) : fieldnames[l] = k => l <= j
               IN  IF i <= Len(fields) THEN Str(fields[i]) ELSE None],
   rest |-> IF Len(fields) > Len(fieldnames)
            THEN SubSeq(fields, Len(fieldnames) + 1, Len(fields))
            ELSE <<>>]

EmptyDict == MakeDict(<<>>, <<>>)

(* row.get(key, "") *)
Get(r, key) == IF key \in DOMAIN r.vals THEN r.vals[key] ELSE Str(<<>>)

----------------------------------------------------------------------------
(* The six checks of check_csv.  An error message is kept as its check, its *)
(* wording and the values it names.                                         *)

Err(check, text, a, b, num) == [check |-> check, text |-> text, a |-> a, b |-> b, num |-> num]

(* any(not value for value in row.values()): None and "" are falsy, the list *)
(* under restkey is never empty                                              *)
CheckMissing(r, errs) ==
  IF \E k \in DOMAIN r.vals : r.vals[k].none \/ r.vals[k].s = <<>>
  THEN Append(errs, Err(1, "Missing data", <<>>, <<>>, <<>>))
  ELSE errs

OutOfRange(num) ==
  ~(MIN_SIZE * Pow10(num[2]) <= num[1] /\ num[1] <= MAX_SIZE * Pow10(num[2]))

CheckSize(r, errs) ==
  LET size_str == Strip(Replace(Get(r, COL_SIZE).s, <<" ", "Mio">>, <<>>))
  IN  IF ~IsFloat(size_str)
      THEN Append(errs, Err(2, "Invalid Size value", <<>>, <<>>, <<>>))
      ELSE IF OutOfRange(FloatOf(size_str))
      THEN Append(errs, Err(2, "Size is out of range", <<>>, <<>>, FloatOf(size_str)))
      ELSE errs

(* A plausible slip: the width is looked at only while the row has no error yet *)
CheckWidthUnlessError(r, errs) ==
  LET width_value == Strip(Get(r, COL_WIDTH).s)
  IN  IF errs = <<>> /\ width_value # WIDTH_DPI
      THEN Append(errs, Err(3, "Width should be", WIDTH_DPI, width_value, <<>>))
      ELSE errs

CheckWidth(r, errs) ==
  LET width_value == Strip(Get(r, COL_WIDTH).s)
  IN  IF width_value # WIDTH_DPI
      THEN Append(errs, Err(3, "Width should be", WIDTH_DPI, width_value, <<>>))
      ELSE errs

(* A plausible slip: the object name is cut at its last "_" *)
CheckNameLastPart(r, errs) ==
  LET filename_value == Strip(Get(r, COL_FILENAME).s)
      parts == Split(Strip(Get(r, COL_OBJECT_NAME).s), "_")
      object_value_prefix ==
        IF Len(parts) = 1 THEN parts[1]
        ELSE SubSeq(Strip(Get(r, COL_OBJECT_NAME).s), 1,
                    Len(Strip(Get(r, COL_OBJECT_NAME).s)) - Len(parts[Len(parts)]) - 1)
  IN  IF filename_value # object_value_prefix
      THEN Append(errs, Err(4, "Filename does not match prefix", filename_value,
                            object_value_prefix, <<>>))
      ELSE errs

CheckName(r, errs) ==
  LET filename_value == Strip(Get(r, COL_FILENAME).s)
      object_value_prefix == Split(Strip(Get(r, COL_OBJECT_NAME).s), "_")[1]
  IN  IF filename_value # object_value_prefix
      THEN Append(errs, Err(4, "Filename does not match prefix", filename_value,
                            object_value_prefix, <<>>))
      ELSE errs

CheckCategory(r, errs) ==
  LET category_value == Strip(Get(r, COL_SUP_CATEGORY).s)
  IN  IF category_value # CATEGORY
      THEN Append(errs, Err(5, "Category should be", CATEGORY, category_value, <<>>))
      ELSE errs

CheckSource(r, errs) ==
  LET source_value == Strip(Get(r, COL_SOURCE).s)
  IN  IF source_value # SOURCE
      THEN Append(errs, Err(6, "Source should be", SOURCE, source_value, <<>>))
      ELSE errs

(* The columns a check calls a str method on: None there raises AttributeError, *)
(* which the except ValueError of the size check does not catch                 *)
Reads(check) ==
  CASE check = 1 -> {}
    [] check = 2 -> {COL_SIZE}
    [] check = 3 -> {COL_WIDTH}
    [] check = 4 -> {COL_FILENAME, COL_OBJECT_NAME}
    [] check = 5 -> {COL_SUP_CATEGORY}
    [] check = 6 -> {COL_SOURCE}

RaisesAt(r, check) == \E key \in Reads(check) : Get(r, key).none

Check(check, r, errs) ==
  CASE check = 1 -> CheckMissing(r, errs)
    [] check = 2 -> CheckSize(r, errs)
    [] check = 3 -> CheckWidth(r, errs)
    [] check = 4 -> CheckName(r, errs)
    [] check = 5 -> CheckCategory(r, errs)
    [] check = 6 -> CheckSource(r, errs)

NumChecks == 6

(* The errors list after the first n checks of lines 77-111 *)
RECURSIVE RunChecks(_, _)
RunChecks(r, n) == IF n = 0 THEN <<>> ELSE Check(n, r, RunChecks(r, n - 1))

Raises(r) == \E c \in 1..NumChecks : RaisesAt(r, c)

(* The checks that ran before the one that raised *)
ChecksBeforeRaise(r) ==
  (CHOOSE c \in 1..NumChecks : RaisesAt(r, c) /\ \A d \in 1..(c - 1) : ~RaisesAt(r, d)) - 1

----------------------------------------------------------------------------
(* Input directories *)

MaxFiles == 2   \* .csv files in the input directory
MaxRows == 2    \* data rows in the input directory, over all its files

HeaderPlain ==
  <<"Filename", ":", "Size", ":", "Width", ":", "IPTC", ":", "ObjectName", ":",
    "IPTC", ":", "Sup.", ":", "IPTC", ":", "Source">>

(* The same header with the column names that hold the delimiter quoted *)
HeaderQuoted ==
  <<"Filename", ":", "Size", ":", "Width", ":", QUOTE, "IPTC", ":", "ObjectName", QUOTE, ":",
    QUOTE, "IPTC", ":", "Sup.", QUOTE, ":", QUOTE, "IPTC", ":", "Source", QUOTE>>

Headers == {HeaderPlain, HeaderQuoted}

(* A row that satisfies the six rules *)
RowValid ==
  <<"IMG001", ":", "3", " ", "Mio", ":", "3200", " ", "DPI", ":", "IMG001", "_", "front", ":",
    "MQB", " ", "-", " ", "Iconotheque", ":", "evian">>

(* A row whose only defect is its Size *)
RowBigSize ==
  <<"IMG002", ":", "5", " ", "Mio", ":", "3200", " ", "DPI", ":", "IMG002", "_", "front", ":",
    "MQB", " ", "-", " ", "Iconotheque", ":", "evian">>

(* A row that stops after Width *)
RowShort == <<"IMG001", ":", "3", " ", "Mio", ":", "3200", " ", "DPI">>

(* A blank line *)
RowBlank == <<>>

(* A row that fails every check, with a comma inside a field *)
RowBad ==
  <<" ", "IMG001", ":", "x", ":", "72", " ", "DPI", ":", "IMG002", "_", "a", ",", "b", ":",
    ":", "Evian">>

RowTexts == {RowValid, RowBigSize, RowShort, RowBlank, RowBad}

(* A file: its header line and its data lines *)
FileText(header, lines) ==
  header \o <<NL>> \o Concat([i \in 1..Len(lines) |-> lines[i] \o <<NL>>])

(* The directories of at most n files that share the header and hold at most *)
(* k data rows together                                                      *)
RECURSIVE Dirs(_, _, _)
Dirs(header, n, k) ==
  IF n = 0 THEN {<<>>}
  ELSE {<<>>} \cup
       UNION {{<<FileText(header, lines)>> \o d : d \in Dirs(header, n - 1, k - Len(lines))} :
              lines \in SeqsUpTo(RowTexts, k)}

(* A file with no line at all, alone and after a file with a header *)
EmptyFile == <<>>
OtherDirs == {<<EmptyFile>>, <<FileText(HeaderQuoted, <<RowValid>>), EmptyFile>>}

InputDirs == (UNION {Dirs(h, MaxFiles, MaxRows) : h \in Headers}) \cup OtherDirs

----------------------------------------------------------------------------
(* main *)

NoOutcome == [out |-> <<>>, report |-> <<>>, pc |-> "none"]
Outcome == [out |-> out, report |-> report, pc |-> pc]
Terminal == {"done", "no_dir", "merge_raised", "check_raised"}

Init ==
  /\ dirExists \in BOOLEAN
  /\ dir \in (IF dirExists THEN InputDirs ELSE {<<>>})
  /\ selfInput \in (IF dirExists THEN BOOLEAN ELSE {FALSE})
  /\ run = 1
  /\ pc = "start"
  /\ csv_files = <<>>
  /\ fi = 0
  /\ reader = <<>>
  /\ rpos = 0
  /\ csv_writer = FALSE
  /\ outExists = FALSE
  /\ out = <<>>
  /\ flushed = 0
  /\ mrows = <<>>
  /\ cpos = 0
  /\ row_num = 0
  /\ row = EmptyDict
  /\ errors = <<>>
  /\ report = <<>>
  /\ prev = NoOutcome

(* main, lines 139-141: the input directory does not exist *)
MissingDir ==
  /\ pc = "start"
  /\ ~dirExists
  /\ pc' = "no_dir"
  /\ UNCHANGED <<dirExists, dir, selfInput, run, csv_files, fi, reader, rpos, csv_writer,
                 outExists, out, flushed, mrows, cpos, row_num, row, errors, report, prev>>

InsertAt(s, p, x) == SubSeq(s, 1, p) \o <<x>> \o SubSeq(s, p + 1, Len(s))

(* input_directory.iterdir(), filtered on the suffix ".csv": the input files, and *)
(* concatenated_output.csv among them, anywhere in the listing, when the input    *)
(* directory is the working directory and the file is there                       *)
Listings ==
  LET inputs == [i \in 1..Len(dir) |-> i]
  IN  IF selfInput /\ outExists
      THEN {InsertAt(inputs, p, 0) : p \in 0..Len(dir)}
      ELSE {inputs}

(* concatenate_csv_files, lines 34-38: list the files, then open (and empty) the output *)
StartMerge ==
  /\ pc = "start"
  /\ dirExists
  /\ csv_files' \in Listings
  /\ outExists' = TRUE
  /\ out' = <<>>
  /\ flushed' = 0
  /\ csv_writer' = FALSE
  /\ fi' = 0
  /\ pc' = "merge"
  /\ UNCHANGED <<dirExists, dir, selfInput, run, reader, rpos, mrows, cpos, row_num, row,
                 errors, report, prev>>

SelfListed == \E i \in 1..Len(csv_files) : csv_files[i] = 0

(* What a reader of file f finds on the disk *)
Content(f) == IF f = 0 THEN SubSeq(out, 1, flushed) ELSE dir[f]

(* The output is written through the buffer of open(), 8192 characters long: *)
(* every file of the model is shorter, so that a write leaves the disk as it *)
(* is and closing the file brings everything written to the disk.            *)
Flushes(written) == {flushed}

(* A plausible slip: the header of every file is written *)
WithHeaderOfEveryFile(headers) == out \o WriteRow(headers, OUTPUT_DELIMITER)

(* lines 47-49: the output once the header of a file has been read *)
WithHeader(headers) ==
  IF csv_writer THEN out ELSE out \o WriteRow(headers, OUTPUT_DELIMITER)

(* lines 41-49: open the next file, read its header, write it if it is the first *)
OpenInput ==
  /\ pc = "merge"
  /\ fi < Len(csv_files)
  /\ LET rows == ReadCsv(Content(csv_files[fi + 1]), INPUT_DELIMITER)
     IN  /\ rows # <<>>
         /\ out' = WithHeader(rows[1])
         /\ reader' = IF csv_files[fi + 1] = 0 THEN <<>> ELSE rows
  /\ flushed' \in Flushes(out')
  /\ csv_writer' = TRUE
  /\ rpos' = 1
  /\ pc' = "copy"
  /\ UNCHANGED <<dirExists, dir, selfInput, run, csv_files, fi, outExists, mrows, cpos,
                 row_num, row, errors, report, prev>>

(* line 44 on a file with no row: next raises StopIteration, which nothing catches; *)
(* leaving the with block closes the output                                         *)
OpenInputEmpty ==
  /\ pc = "merge"
  /\ fi < Len(csv_files)
  /\ ReadCsv(Content(csv_files[fi + 1]), INPUT_DELIMITER) = <<>>
  /\ flushed' = Len(out)
  /\ pc' = "merge_raised"
  /\ UNCHANGED <<dirExists, dir, selfInput, run, csv_files, fi, reader, rpos, csv_writer,
                 outExists, out, mrows, cpos, row_num, row, errors, report, prev>>

(* The rows csv_reader yields for the file being merged: those of an input file *)
(* were on the disk when it was opened, those of the output file are whatever   *)
(* has reached the disk by now                                                  *)
CurRows ==
  IF csv_files[fi + 1] = 0 THEN ReadCsv(Content(0), INPUT_DELIMITER) ELSE reader

(* A plausible slip: a row with no field is not copied *)
CopiedSkippingBlank(r) == IF r = <<>> THEN out ELSE out \o WriteRow(r, OUTPUT_DELIMITER)

(* line 53: the output once row r has been copied *)
Copied(r) == out \o WriteRow(r, OUTPUT_DELIMITER)

(* lines 52-53: one iteration of the copy loop *)
CopyRow ==
  /\ pc = "copy"
  /\ LET rows == CurRows
     IN  /\ rpos < Len(rows)
         /\ out' = Copied(rows[rpos + 1])
  /\ flushed' \in Flushes(out')
  /\ rpos' = rpos + 1
  /\ UNCHANGED <<dirExists, dir, selfInput, run, pc, csv_files, fi, reader, csv_writer,
                 outExists, mrows, cpos, row_num, row, errors, report, prev>>

(* the copy loop ends: the reader has no further row *)
EndInput ==
  /\ pc = "copy"
  /\ rpos >= Len(CurRows)
  /\ fi' = fi + 1
  /\ reader' = <<>>
  /\ rpos' = 0
  /\ pc' = "merge"
  /\ UNCHANGED <<dirExists, dir, selfInput, run, csv_files, csv_writer, outExists, out,
                 flushed, mrows, cpos, row_num, row, errors, report, prev>>

(* the file loop ends: the output is closed; main goes on to check_csv, which *)
(* opens the merged file (lines 74-75)                                        *)
EndMerge ==
  /\ pc = "merge"
  /\ fi = Len(csv_files)
  /\ flushed' = Len(out)
  /\ mrows' = ReadCsv(out, ",")
  /\ pc' = "check"
  /\ UNCHANGED <<dirExists, dir, selfInput, run, csv_files, fi, reader, rpos, csv_writer,
                 outExists, out, cpos, row_num, row, errors, report, prev>>

(* DictReader.fieldnames: the first row of the file *)
fieldnames == IF mrows = <<>> THEN <<>> ELSE mrows[1]

(* DictReader.__next__ skips the rows that are [] *)
HasNext == \E j \in (cpos + 1)..Len(mrows) : j > 1 /\ mrows[j] # <<>>
NextIndex ==
  CHOOSE j \in (cpos + 1)..Len(mrows) :
    /\ j > 1 /\ mrows[j] # <<>>
    /\ \A l \in (cpos + 1)..(j - 1) : l > 1 => mrows[l] = <<>>

(* lines 76-119: one iteration of the row loop, all checks and the printed block *)
CheckRow ==
  /\ pc = "check"
  /\ HasNext
  /\ LET r == MakeDict(fieldnames, mrows[NextIndex])
     IN  /\ ~Raises(r)
         /\ row' = r
         /\ errors' = RunChecks(r, NumChecks)
  /\ cpos' = NextIndex
  /\ row_num' = row_num + 1
  /\ report' = IF errors' # <<>>
               THEN Append(report, [num |-> row_num', issues |-> errors', row |-> row'])
               ELSE report
  /\ UNCHANGED <<dirExists, dir, selfInput, run, pc, csv_files, fi, reader, rpos, csv_writer,
                 outExists, out, flushed, mrows, prev>>

(* the same iteration on a row that lacks a column a check reads: the str method *)
(* called on None raises AttributeError and check_csv ends there                *)
CheckRowRaises ==
  /\ pc = "check"
  /\ HasNext
  /\ LET r == MakeDict(fieldnames, mrows[NextIndex])
     IN  /\ Raises(r)
         /\ row' = r
         /\ errors' = RunChecks(r, ChecksBeforeRaise(r))
  /\ cpos' = NextIndex
  /\ row_num' = row_num + 1
  /\ pc' = "check_raised"
  /\ UNCHANGED <<dirExists, dir, selfInput, run, csv_files, fi, reader, rpos, csv_writer,
                 outExists, out, flushed, mrows, report, prev>>

(* the row loop ends *)
EndCheck ==
  /\ pc = "check"
  /\ ~HasNext
  /\ pc' = "done"
  /\ UNCHANGED <<dirExists, dir, selfInput, run, csv_files, fi, reader, rpos, csv_writer,
                 outExists, out, flushed, mrows, cpos, row_num, row, errors, report, prev>>

(* main is run again on the unchanged input directory *)
Rerun ==
  /\ pc \in Terminal
  /\ run = 1
  /\ prev' = Outcome
  /\ run' = 2
  /\ pc' = "start"
  /\ csv_files' = <<>>
  /\ fi' = 0
  /\ reader' = <<>>
  /\ rpos' = 0
  /\ csv_writer' = FALSE
  /\ mrows' = <<>>
  /\ cpos' = 0
  /\ row_num' = 0
  /\ row' = EmptyDict
  /\ errors' = <<>>
  /\ report' = <<>>
  /\ UNCHANGED <<dirExists, dir, selfInput, outExists, out, flushed>>

Next ==
  \/ MissingDir
  \/ StartMerge
  \/ OpenInput
  \/ OpenInputEmpty
  \/ CopyRow
  \/ EndInput
  \/ EndMerge
  \/ CheckRow
  \/ CheckRowRaises
  \/ EndCheck
  \/ Rerun

Spec == Init /\ [][Next]_vars

----------------------------------------------------------------------------
(* The reader and the writer alone: any text goes through the merger's reader, *)
(* the merger's writer and check_csv's reader                                  *)

MaxTextLen == 3   \* characters of a text
CsvChars == {"a", INPUT_DELIMITER, OUTPUT_DELIMITER, QUOTE, NL, CR}
CsvTexts == SeqsUpTo(CsvChars, MaxTextLen)

Idle(p) ==
  /\ dirExists = TRUE /\ selfInput = FALSE /\ run = 1 /\ pc = p /\ csv_files = <<>>
  /\ fi = 0 /\ reader = <<>> /\ rpos = 0 /\ csv_writer = FALSE /\ outExists = FALSE
  /\ out = <<>> /\ flushed = 0 /\ mrows = <<>> /\ cpos = 0 /\ row_num = 0
  /\ errors = <<>> /\ report = <<>> /\ prev = NoOutcome

InitCsv == Idle("csv") /\ dir \in {<<t>> : t \in CsvTexts} /\ row = EmptyDict

(* lines 42-43, 52: every row csv_reader yields for the text *)
CsvRead ==
  /\ pc = "csv"
  /\ reader' = ReadCsv(dir[1], INPUT_DELIMITER)
  /\ pc' = "csv_read"
  /\ UNCHANGED <<dirExists, dir, selfInput, run, csv_files, fi, rpos, csv_writer, outExists,
                 out, flushed, mrows, cpos, row_num, row, errors, report, prev>>

(* lines 48, 53: csv_writer.writerow on each of them *)
CsvWrite ==
  /\ pc = "csv_read"
  /\ out' = Concat([i \in 1..Len(reader) |-> WriteRow(reader[i], OUTPUT_DELIMITER)])
  /\ flushed' = Len(out')
  /\ pc' = "csv_written"
  /\ UNCHANGED <<dirExists, dir, selfInput, run, csv_files, fi, reader, rpos, csv_writer,
                 outExists, mrows, cpos, row_num, row, errors, report, prev>>

(* lines 74-75: the rows check_csv's reader yields for what was written *)
CsvReadBack ==
  /\ pc = "csv_written"
  /\ mrows' = ReadCsv(out, ",")
  /\ pc' = "csv_done"
  /\ UNCHANGED <<dirExists, dir, selfInput, run, csv_files, fi, reader, rpos, csv_writer,
                 outExists, out, flushed, cpos, row_num, row, errors, report, prev>>

NextCsv == CsvRead \/ CsvWrite \/ CsvReadBack

SpecCsv == InitCsv /\ [][NextCsv]_vars

----------------------------------------------------------------------------
(* The size check alone, on any Size value *)

MaxSizeLen == 4   \* characters of a Size value
SizeChars == {"2", "5", ".", " ", "Mio"}
SizeExamples ==
  {<<"2", " ", "Mio">>, <<"4", " ", "Mio">>, <<"1", ".", "9", "9", " ", "Mio">>,
   <<"4", ".", "0", "1", " ", "Mio">>, <<"2", " ", "Mio", "5">>}
SizeTexts == SeqsUpTo(SizeChars, MaxSizeLen) \cup SizeExamples

InitSize ==
  /\ Idle("size") /\ dir = <<>>
  /\ row \in {MakeDict(<<COL_SIZE>>, <<t>>) : t \in SizeTexts}

(* lines 83-89 *)
EvalSize ==
  /\ pc = "size"
  /\ errors' = CheckSize(row, <<>>)
  /\ pc' = "sized"
  /\ UNCHANGED <<dirExists, dir, selfInput, run, csv_files, fi, reader, rpos, csv_writer,
                 outExists, out, flushed, mrows, cpos, row_num, row, report, prev>>

NextSize == EvalSize

SpecSize == InitSize /\ [][NextSize]_vars

----------------------------------------------------------------------------
(* The filename/object-name check alone, on any pair of values *)

MaxFilenameLen == 2     \* characters of a Filename value
MaxObjectNameLen == 3   \* characters of an IPTC:ObjectName value
NameChars == {"IMG001", "IMG002", "front", "_", " "}

InitName ==
  /\ Idle("name") /\ dir = <<>>
  /\ row \in {MakeDict(<<COL_FILENAME, COL_OBJECT_NAME>>, <<f, o>>) :
                f \in SeqsUpTo(NameChars, MaxFilenameLen),
                o \in SeqsUpTo(NameChars, MaxObjectNameLen)}

(* lines 95-101 *)
EvalName ==
  /\ pc = "name"
  /\ errors' = CheckName(row, <<>>)
  /\ pc' = "named"
  /\ UNCHANGED <<dirExists, dir, selfInput, run, csv_files, fi, reader, rpos, csv_writer,
                 outExists, out, flushed, mrows, cpos, row_num, row, report, prev>>

NextName == EvalName

SpecName == InitName /\ [][NextName]_vars

----------------------------------------------------------------------------
(* What the claims speak of *)

(* The rows of input file f as the merger reads them, and the rows after the header *)
InputRows(f) == ReadCsv(dir[f], INPUT_DELIMITER)
DataRows(rows) == IF rows = <<>> THEN <<>> ELSE Tail(rows)

(* The merge has ended without raising *)
Merged == pc \in {"check", "done", "check_raised"}

(* The rows of the output file as a reader with the delimiter "," parses them *)
OutRows == ReadCsv(out, OUTPUT_DELIMITER)

RECURSIVE AllDataRows(_)
AllDataRows(files) ==
  IF files = <<>> THEN <<>>
  ELSE DataRows(InputRows(Head(files))) \o AllDataRows(Tail(files))

(* A text without the white space at its ends, and its part before its first sep *)
Trimmed(s) ==
  LET black == {i \in 1..Len(s) : s[i] \notin Whitespace}
  IN  IF black = {} THEN <<>>
      ELSE SubSeq(s, CHOOSE i \in black : \A j \in black : i <= j,
                     CHOOSE i \in black : \A j \in black : i >= j)

BeforeFirst(s, sep) ==
  LET at == {i \in 1..Len(s) : s[i] = sep}
  IN  IF at = {} THEN s ELSE SubSeq(s, 1, (CHOOSE i \in at : \A j \in at : i <= j) - 1)

EndsWith(s, p) == Len(s) >= Len(p) /\ SubSeq(s, Len(s) - Len(p) + 1, Len(s)) = p

(* C1: check_csv runs to the end without raising on every merged file, also on *)
(* one with a data row shorter than the header.                                *)
C1_ValidateNeverRaises == pc # "check_raised"

(* C2: with a.csv and b.csv under the colon-delimited header, one holding the   *)
(* valid row and the other the row whose Size is out of range, merge then       *)
(* validate ends with 2 data rows in the output and exactly one block in the    *)
(* report, that of the out-of-range row, citing the size range and nothing else *)
EndToEndDirs ==
  {<<FileText(HeaderPlain, <<RowValid>>), FileText(HeaderPlain, <<RowBigSize>>)>>,
   <<FileText(HeaderPlain, <<RowBigSize>>), FileText(HeaderPlain, <<RowValid>>)>>}

C2_EndToEnd ==
  (dir \in EndToEndDirs /\ run = 1 /\ pc \in Terminal) =>
    /\ pc = "done"
    /\ Len(DataRows(OutRows)) = 2
    /\ Len(report) = 1
    /\ Len(report[1].issues) = 1
    /\ report[1].issues[1].text = "Size is out of range"
    /\ Get(report[1].row, COL_FILENAME) = Str(<<"IMG002">>)

(* C3: once the merge has ended, the first row of the output is the header of *)
(* the first file of the listing and the output holds one row more than the   *)
(* input files hold data rows: one header was written, whatever the number of *)
(* files.                                                                     *)
C3_MergeHeader ==
  (Merged /\ csv_files # <<>> /\ ~SelfListed) =>
    /\ OutRows # <<>>
    /\ OutRows[1] = InputRows(csv_files[1])[1]
    /\ Len(OutRows) = 1 + Len(AllDataRows(csv_files))

C3_Witness ==
  /\ pc = "done" /\ Len(csv_files) = 2 /\ ~SelfListed
  /\ Len(InputRows(1)) = 2 /\ Len(InputRows(2)) = 2
  /\ Len(mrows) = 3

(* C4: once the merge has ended without raising, the rows of the output after *)
(* its header are the data rows of the input files, file after file in the    *)
(* order of the listing and in the order of each file.                        *)
C4_MergeComplete ==
  (Merged /\ ~SelfListed) => DataRows(OutRows) = AllDataRows(csv_files)

C4_Witness ==
  /\ pc = "done" /\ Len(csv_files) = 2 /\ ~SelfListed
  /\ Len(InputRows(1)) = 3
  /\ InputRows(1)[2] = <<>>
  /\ InputRows(1)[3] # <<>>

(* C5: every row read with ":" and written with "," is read back with "," as *)
(* the same fields; a field that holds a comma comes back as one field.      *)
C5_RoundTrip == pc = "csv_done" => mrows = reader

C5_Witness ==
  /\ pc = "csv_done"
  /\ \E i \in 1..Len(reader) : \E j \in 1..Len(reader[i]) :
       \E k \in 1..Len(reader[i][j]) : reader[i][j][k] = OUTPUT_DELIMITER

(* C6: the size check removes a trailing " Mio" and the white space around, *)
(* and reports "Invalid Size value" when the rest is no number, one range   *)
(* error when the number is outside [2, 4], nothing otherwise; " Mio"       *)
(* elsewhere in the value stays there and makes it no number.               *)
SizeRest(s) ==
  LET t == Trimmed(s)
  IN  IF EndsWith(t, <<" ", "Mio">>) THEN Trimmed(SubSeq(t, 1, Len(t) - 2)) ELSE t

C6_SizeTrailingUnit ==
  pc = "sized" =>
    LET rest == SizeRest(Get(row, COL_SIZE).s)
    IN  errors = IF ~IsFloat(rest)
                 THEN <<Err(2, "Invalid Size value", <<>>, <<>>, <<>>)>>
                 ELSE IF OutOfRange(FloatOf(rest))
                 THEN <<Err(2, "Size is out of range", <<>>, <<>>, FloatOf(rest))>>
                 ELSE <<>>

Project(r, keys) == [vals |-> [k \in (DOMAIN r.vals) \cap keys |-> r.vals[k]], rest |-> <<>>]

Alone(check) ==
  IF check = 1 THEN CheckMissing(row, <<>>) ELSE Check(check, Project(row, Reads(check)), <<>>)

C9_RowNumbering ==
  pc = "done" =>
    /\ \A i \in 1..Len(report) :
         /\ report[i].issues # <<>>
         /\ report[i].num \in 1..Len(DataRows(mrows))
         /\ report[i].row = MakeDict(fieldnames, DataRows(mrows)[report[i].num])
    /\ \A i, j \in 1..Len(report) : i < j => report[i].num < report[j].num
    /\ \A k \in 1..Len(DataRows(mrows)) :
         LET r == MakeDict(fieldnames, DataRows(mrows)[k])
         IN  (DataRows(mrows)[k] # <<>> /\ ~Raises(r) /\ RunChecks(r, NumChecks) # <<>>) =>
               \E i \in 1..Len(report) : report[i].num = k

(* C10: a second run of main on the unchanged input directory ends like the *)
(* first, with the same output file and the same report.                    *)
C10_RerunSameOutcome == (run = 2 /\ pc \in Terminal) => Outcome = prev

====
